---- MODULE Spec2Model ----
(***************************************************************************)
(* The signaling relay of src/signaling.py: the process-wide room table,   *)
(* the per-connection handler coroutine (admission, receive loop,          *)
(* disconnect sequence) and the two delivery helpers.                      *)
(*                                                                         *)
(* Scheduling.  The handlers are asyncio coroutines on one event loop: the *)
(* code between two awaits runs without interruption, and another handler  *)
(* can only run while this one is suspended in an await (a send, a close,  *)
(* the receive of the next frame).  One action of this module is therefore *)
(* one such uninterrupted run of one handler: it starts where the handler  *)
(* was suspended and ends at the next await that the code reaches.  A send *)
(* hands its frame to the transport when it is invoked, so the frame is    *)
(* recorded at the end of the run that invokes the send; whether the send  *)
(* raised is seen by the run that resumes from it.                         *)
(*                                                                         *)
(* Connections.  `peer.open` and `peer.send` belong to the websockets      *)
(* library.  A connection is "open" or "closed" (open is false: the code   *)
(* that checks open first does not attempt a send).  A send invoked on an  *)
(* open connection either hands its frame to the transport, or finds the   *)
(* transport broken: the library then fails the connection (it is closed   *)
(* from then on) and the send raises when the handler resumes.  Frames a   *)
(* client sent before its connection closed stay queued and are still      *)
(* handed to the receive loop after the close.                             *)
(***************************************************************************)
EXTENDS Integers, Sequences, FiniteSets, TLC

\* ---------------------------------------------------------------- bounds
\* Connections accepted in a run, frames consumed by all receive loops
\* together, connections closed by their clients, and transports that break
\* unnoticed; and the frames of a run in which the sends are recorded.
NumConns == 3
MaxFrames == 1
MaxCloses == 2
MaxBreaks == 1
MaxOrdered == 2

Conns == 1..NumConns

\* ------------------------------------------------------------- constants
\* Python's None / JSON null, as a display name, a host or a field value.
Null == "null"
\* ws_for_username's "no such peer", and a room id that is not in `rooms`.
NoConn == 0
NoRoom == 0
\* The name a sender gets when its connection is no longer in room["clients"].
Anon == "anon"

RoomIds == {"r9"}
\* "anon" is the name of a connection whose query has no user.
UserNames == {"anon", "bob"}

\* Python compares strings by code point: "amy" < "anon" < "bob" < "zig".
NameOrder == <<"amy", "anon", "bob", "zig">>
Rank(n) == CHOOSE i \in 1..Len(NameOrder) : NameOrder[i] = n

\* ------------------------------------------------------------ wire format
\* A frame on the wire is JSON text or text that is not JSON.  A JSON value is
\* an object (a dict, here a record of its fields), a string, or another
\* non-object value.
JsonFrame(v) == [fmt |-> "json", val |-> v]
TextFrame(raw) == [fmt |-> "text", raw |-> raw]
Dict(fields) == [t |-> "object", v |-> fields]
Str(s) == [t |-> "string", s |-> s]
Num(n) == [t |-> "number", n |-> n]
Arr(items) == [t |-> "array", items |-> items]
JsonNull == [t |-> "null"]

\* json.dumps(payload): the frame whose JSON value is the payload.
Dumps(payload) == JsonFrame(payload)
\* json.loads(raw) succeeds exactly on JSON text.
LoadsRaises(fr) == fr.fmt # "json"
Loads(fr) == fr.val
\* A str payload handed to broadcast (the raw text of a frame).
RawOf(fr) == Str(fr.raw)

\* dict.get(key): the field, or None when the dict has no such key.
Get(m, k) == IF k \in DOMAIN m THEN m[k] ELSE Null
\* msg[key] = value on a dict.
SetKey(m, k, val) == [f \in DOMAIN m \cup {k} |-> IF f = k THEN val ELSE m[f]]
\* Python truthiness of a field value: None and "" are false.
Truthy(x) == x \notin {Null, ""}

\* Server -> client payloads.
HostChanged(h) == Dict([type |-> "host_changed", host |-> h])
PeerList(users, h) == Dict([type |-> "peer_list", users |-> users, host |-> h])
PeerJoined(u) == Dict([type |-> "peer_joined", user |-> u])
PeerLeft(u) == Dict([type |-> "peer_left", user |-> u])
HostMute == Dict([type |-> "host_mute"])
HostKick(target) == Dict([type |-> "host_kick", to |-> target])
\* An intro that names its target as the other side.
Intro_OfItself(target, other) ==
  Dict([type |-> "signal", to |-> target, from |-> "host",
        data |-> [type |-> "intro", other |-> target]])
Intro(target, other) ==
  Dict([type |-> "signal", to |-> target, from |-> "host",
        data |-> [type |-> "intro", other |-> other]])

\* ------------------------------------------------------------------ state
VARIABLES
  rooms,    \* the room table: room id -> room object, or NoRoom
  clients,  \* room object -> its "clients" dict: the connections, in insertion order
  host,     \* room object -> its "host": a display name or Null
  conn,     \* connection -> "new" | "open" | "closed"
  task,     \* connection -> its handler: where it is suspended, and its locals
  out,      \* connection -> the sends its handler invoked in its current phase
            \*   (admission, the current incoming frame, or the disconnect sequence)
  quota,    \* what the clients and the network may still do in this run
  owed,     \* history: the members that were sent a peer_left naming their
            \*   room's host and have been sent no host_changed since
  kicked,   \* history: the connections a host_kick has closed
  wire      \* history, kept when wire.on: the sends invoked for incoming frames,
            \*   in the order of their invocation (log), and for each handler
            \*   the name and the result of its last send_to_user call (rv)
            \*   and, kept when wire.tell: for each connection the host named
            \*   by the last host_changed or peer_list it was sent (told)
            \*   and the display names it was sent in a peer_list or a
            \*   peer_joined (heard)

vars == <<rooms, clients, host, conn, task, out, quota, owed, kicked, wire>>

\* A room object is named by the connection whose handler created it.
Objs == Conns

\* A handler's `msg` before the first frame, and its frame of a send when no
\* send is in progress.
NoMsg == [none |-> TRUE]
NoPayload == [t |-> "none"]

\* What a connection that was sent no host_changed and no peer_list was told.
Untold == "untold"

\* The record of a handler that has made no send_to_user call.
NoCall == [to |-> Null, val |-> "none"]

\* A handler before its connection is accepted.
NewTask ==
  [pc |-> "new", user |-> Null, room_id |-> Null, room |-> NoRoom,
   sender_name |-> Null, user_left |-> Null, msg |-> NoMsg,
   op |-> "none", peer |-> NoConn, ok |-> TRUE, snap |-> <<>>, pend |-> <<>>,
   dead |-> {},
   payload |-> NoPayload, ret |-> "none", torn |-> 0, nth |-> 0]

\* The server has started: no room, no connection.
Started(breaks) ==
  /\ rooms = [r \in RoomIds |-> NoRoom]
  /\ clients = [o \in Objs |-> <<>>]
  /\ host = [o \in Objs |-> Null]
  /\ conn = [c \in Conns |-> "new"]
  /\ task = [c \in Conns |-> NewTask]
  /\ out = [c \in Conns |-> <<>>]
  /\ quota = [frames |-> MaxFrames, closes |-> MaxCloses, breaks |-> breaks]
  /\ owed = {}
  /\ kicked = {}
  /\ wire = [on |-> FALSE, log |-> <<>>, rv |-> [c \in Conns |-> NoCall],
             tell |-> FALSE, told |-> [c \in Conns |-> Untold],
             heard |-> [c \in Conns |-> {}]]

Init == Started(MaxBreaks)
\* A run in which no transport breaks under a send.
InitCalm == Started(0)
\* A run of MaxOrdered incoming frames and one disconnection in which no
\* transport breaks and the sends are recorded.
InitOrdered ==
  /\ rooms = [r \in RoomIds |-> NoRoom]
  /\ clients = [o \in Objs |-> <<>>]
  /\ host = [o \in Objs |-> Null]
  /\ conn = [c \in Conns |-> "new"]
  /\ task = [c \in Conns |-> NewTask]
  /\ out = [c \in Conns |-> <<>>]
  /\ quota = [frames |-> MaxOrdered, closes |-> 1, breaks |-> 0]
  /\ owed = {}
  /\ kicked = {}
  /\ wire = [on |-> TRUE, log |-> <<>>, rv |-> [c \in Conns |-> NoCall],
             tell |-> FALSE, told |-> [c \in Conns |-> Untold],
             heard |-> [c \in Conns |-> {}]]

\* A run with one disconnection in which a transport may break and the results
\* of send_to_user are recorded.
InitTraced ==
  /\ rooms = [r \in RoomIds |-> NoRoom]
  /\ clients = [o \in Objs |-> <<>>]
  /\ host = [o \in Objs |-> Null]
  /\ conn = [c \in Conns |-> "new"]
  /\ task = [c \in Conns |-> NewTask]
  /\ out = [c \in Conns |-> <<>>]
  /\ quota = [frames |-> MaxFrames, closes |-> 1, breaks |-> MaxBreaks]
  /\ owed = {}
  /\ kicked = {}
  /\ wire = [on |-> TRUE, log |-> <<>>, rv |-> [c \in Conns |-> NoCall],
             tell |-> FALSE, told |-> [c \in Conns |-> Untold],
             heard |-> [c \in Conns |-> {}]]

\* A run with one disconnection in which no transport breaks and the host each
\* connection was last told of is recorded.
InitTold ==
  /\ rooms = [r \in RoomIds |-> NoRoom]
  /\ clients = [o \in Objs |-> <<>>]
  /\ host = [o \in Objs |-> Null]
  /\ conn = [c \in Conns |-> "new"]
  /\ task = [c \in Conns |-> NewTask]
  /\ out = [c \in Conns |-> <<>>]
  /\ quota = [frames |-> MaxFrames, closes |-> 1, breaks |-> 0]
  /\ owed = {}
  /\ kicked = {}
  /\ wire = [on |-> FALSE, log |-> <<>>, rv |-> [c \in Conns |-> NoCall],
             tell |-> TRUE, told |-> [c \in Conns |-> Untold],
             heard |-> [c \in Conns |-> {}]]

\* The same run in which a transport may break.
InitHeard ==
  /\ rooms = [r \in RoomIds |-> NoRoom]
  /\ clients = [o \in Objs |-> <<>>]
  /\ host = [o \in Objs |-> Null]
  /\ conn = [c \in Conns |-> "new"]
  /\ task = [c \in Conns |-> NewTask]
  /\ out = [c \in Conns |-> <<>>]
  /\ quota = [frames |-> MaxFrames, closes |-> 1, breaks |-> MaxBreaks]
  /\ owed = {}
  /\ kicked = {}
  /\ wire = [on |-> FALSE, log |-> <<>>, rv |-> [c \in Conns |-> NoCall],
             tell |-> TRUE, told |-> [c \in Conns |-> Untold],
             heard |-> [c \in Conns |-> {}]]

\* The state as one value, so that a run of a handler is a function on states.
\* `breaks` says whether the transport breaks under the send this run invokes.
Now(breaks) ==
  [rooms |-> rooms, clients |-> clients, host |-> host, conn |-> conn,
   task |-> task, out |-> out, quota |-> quota, owed |-> owed,
   kicked |-> kicked, wire |-> wire, breaks |-> breaks]

Becomes(s) ==
  /\ rooms' = s.rooms
  /\ clients' = s.clients
  /\ host' = s.host
  /\ conn' = s.conn
  /\ task' = s.task
  /\ out' = s.out
  /\ quota' = s.quota
  /\ owed' = s.owed
  /\ kicked' = s.kicked
  /\ wire' = s.wire

\* ---------------------------------------------------------------- helpers
InSeq(x, seq) == \E i \in 1..Len(seq) : seq[i] = x
Without(seq, gone) == SelectSeq(seq, LAMBDA x : x \notin gone)

\* usernames_in_room(room): list(room["clients"].values())
usernames_in_room(s, rm) ==
  [i \in 1..Len(s.clients[rm]) |-> s.task[s.clients[rm][i]].user]

\* ws_for_username(room, username): the first peer registered under the name.
ws_for_username(s, rm, username) ==
  LET hits == {i \in 1..Len(s.clients[rm]) : s.task[s.clients[rm][i]].user = username}
  IN IF hits = {} THEN NoConn
     ELSE s.clients[rm][CHOOSE i \in hits : \A j \in hits : i <= j]

\* peer.open
IsOpen(s, p) == s.conn[p] = "open"

\* min(remaining) if remaining else None
MinName(names) ==
  IF Len(names) = 0 THEN Null
  ELSE names[CHOOSE i \in 1..Len(names) :
               \A j \in 1..Len(names) : Rank(names[i]) <= Rank(names[j])]

\* The display names a peer_list or a peer_joined carries.
NamesTold(payload) ==
  IF payload.t # "object" THEN {}
  ELSE IF Get(payload.v, "type") = "peer_list"
  THEN {payload.v.users[i] : i \in 1..Len(payload.v.users)}
  ELSE IF Get(payload.v, "type") = "peer_joined" THEN {payload.v.user}
  ELSE {}

\* A send that overtakes the sends invoked before it.
AwaitSend_Overtaking(s, c, p, payload, op, pend, dead, ret) ==
  LET sound == ~s.breaks
      current == s.host[s.task[c].room]
  IN [s EXCEPT
        !.owed = IF sound /\ current # Null /\ payload = PeerLeft(current)
                 THEN @ \cup {p}
                 ELSE IF sound /\ payload.t = "object"
                               /\ Get(payload.v, "type") = "host_changed"
                      THEN @ \ {p}
                      ELSE @,
        !.conn[p] = IF sound THEN @ ELSE "closed",
        !.quota.breaks = IF sound THEN @ ELSE @ - 1,
        !.out[c] = Append(@, [to |-> p, data |-> Dumps(payload), ok |-> sound]),
        !.wire.log = IF s.wire.on /\ s.task[c].nth # 0
                     THEN <<[from |-> c, to |-> p, nth |-> s.task[c].nth]>> \o @
                     ELSE @,
        !.task[c] = [@ EXCEPT !.pc = "await", !.op = op, !.peer = p, !.ok = sound,
                              !.pend = pend, !.dead = dead, !.payload = payload,
                              !.ret = ret]]

\* `await peer.send(json.dumps(payload))` on a peer whose open is true: the
\* frame is handed to the transport unless the transport breaks under it; the
\* handler is suspended, to go on with `op` when the send returns or raises.
AwaitSend(s, c, p, payload, op, pend, dead, ret) ==
  LET sound == ~s.breaks
      current == s.host[s.task[c].room]
  IN [s EXCEPT
        !.owed = IF sound /\ current # Null /\ payload = PeerLeft(current)
                 THEN @ \cup {p}
                 ELSE IF sound /\ payload.t = "object"
                               /\ Get(payload.v, "type") = "host_changed"
                      THEN @ \ {p}
                      ELSE @,
        !.conn[p] = IF sound THEN @ ELSE "closed",
        !.quota.breaks = IF sound THEN @ ELSE @ - 1,
        !.out[c] = Append(@, [to |-> p, data |-> Dumps(payload), ok |-> sound]),
        !.wire.log = IF s.wire.on /\ s.task[c].nth # 0
                     THEN Append(@, [from |-> c, to |-> p, nth |-> s.task[c].nth])
                     ELSE @,
        !.wire.told[p] = IF s.wire.tell /\ sound /\ payload.t = "object"
                              /\ Get(payload.v, "type") \in {"host_changed", "peer_list"}
                         THEN payload.v.host
                         ELSE @,
        !.wire.heard[p] = IF s.wire.tell /\ sound THEN @ \cup NamesTold(payload) ELSE @,
        !.task[c] = [@ EXCEPT !.pc = "await", !.op = op, !.peer = p, !.ok = sound,
                              !.pend = pend, !.dead = dead, !.payload = payload,
                              !.ret = ret]]

\* A handler that is in no send: the locals of its last frame are dead.
Idle(tk, pc) ==
  [NewTask EXCEPT !.pc = pc, !.user = tk.user, !.room_id = tk.room_id,
                  !.room = tk.room, !.torn = tk.torn]

\* Back to `async for raw in ws`.
Loop(s, c) ==
  [s EXCEPT !.out[c] = <<>>,
            !.task[c] = Idle(@, "recv")]

\* The handler ends: the server closes its connection.
Ended(s, c, how) ==
  [s EXCEPT !.conn[c] = "closed",
            !.out[c] = <<>>,
            !.task[c] = Idle(@, how)]

\* ---------------------------------------------------------- the handler
\* str.strip() on a text given as its sequence of characters.
RECURSIVE LStrip(_)
LStrip(txt) == IF Len(txt) > 0 /\ Head(txt) = " " THEN LStrip(Tail(txt)) ELSE txt
RECURSIVE RStrip(_)
RStrip(txt) ==
  IF Len(txt) > 0 /\ txt[Len(txt)] = " " THEN RStrip(SubSeq(txt, 1, Len(txt) - 1)) ELSE txt
Strip(txt) == RStrip(LStrip(txt))

\* (msg.get("text") or "").strip()
ChatText(m) == IF "text" \in DOMAIN m THEN Strip(m.text) ELSE <<>>
\* The chat payload, and its two private forms.
ChatPayload(sender, m) == Dict([type |-> "chat", from |-> sender, text |-> ChatText(m)])
ChatPrivate(sender, m) ==
  Dict([type |-> "chat", from |-> sender, text |-> ChatText(m), private |-> TRUE])
ChatEcho(sender, m) ==
  Dict([type |-> "chat", from |-> sender, text |-> ChatText(m), private |-> TRUE,
        to |-> Get(m, "to")])

\* First position of `pend` whose peer the loop does not skip, or 0.
FirstOpen(s, pend) ==
  LET hits == {i \in 1..Len(pend) : IsOpen(s, pend[i])}
  IN IF hits = {} THEN 0 ELSE CHOOSE i \in hits : \A j \in hits : i <= j

RECURSIVE After(_, _, _)

\* send_to_user called by handler c for `username` returns val: `return True`
\* (line 72) or `return False` (line 75).
Returns(s, c, username, val) ==
  IF s.wire.on THEN [s EXCEPT !.wire.rv[c] = [to |-> username, val |-> val]] ELSE s

\* The loop of broadcast over the rest of its snapshot: peers that are not open
\* are passed over, the next open one is sent to; at the end of the snapshot
\* the peers whose send raised are popped from room["clients"].
BroadcastLoop(s, c, payload, pend, dead, ret) ==
  LET i == FirstOpen(s, pend)
      rm == s.task[c].room
  IN IF i = 0
     THEN After([s EXCEPT !.clients[rm] = Without(@, dead),
                          !.owed = @ \ dead], c, ret)
     ELSE AwaitSend(s, c, pend[i], payload, "broadcast",
                    SubSeq(pend, i + 1, Len(pend)), dead, ret)

\* broadcast(room, payload, except_ws): the snapshot is list(room["clients"].keys()).
broadcast(s, c, payload, except_ws, ret) ==
  LET snap == s.clients[s.task[c].room]
  IN BroadcastLoop([s EXCEPT !.task[c].snap = snap], c, payload,
                   Without(snap, {except_ws}), {}, ret)

\* send_to_user that falls back on the first member when nobody has the name.
send_to_user_OrFirst(s, c, username, payload, ret) ==
  LET rm == s.task[c].room
      named == ws_for_username(s, rm, username)
      peer == IF named = NoConn /\ s.clients[rm] # <<>> THEN s.clients[rm][1] ELSE named
  IN IF peer # NoConn /\ IsOpen(s, peer)
     THEN AwaitSend(s, c, peer, payload, "send_to_user", <<>>, {}, ret)
     ELSE After(s, c, ret)

\* send_to_user that returns True when it has sent nothing.
send_to_user_TrueUnsent(s, c, username, payload, ret) ==
  LET peer == ws_for_username(s, s.task[c].room, username)
  IN IF peer # NoConn /\ IsOpen(s, peer)
     THEN AwaitSend(s, c, peer, payload, "send_to_user", <<>>, {}, ret)
     ELSE After(Returns(s, c, username, "true"), c, ret)

\* send_to_user(room, username, payload): `return False` (line 75) when no
\* send is attempted; its callers never use the result.
send_to_user(s, c, username, payload, ret) ==
  LET peer == ws_for_username(s, s.task[c].room, username)
  IN IF peer # NoConn /\ IsOpen(s, peer)
     THEN AwaitSend(s, c, peer, payload, "send_to_user", <<>>, {}, ret)
     ELSE After(Returns(s, c, username, "false"), c, ret)

\* The loop of host_mute_all over the rest of its snapshot of clients.items().
MuteLoop(s, c, pend) ==
  LET hits == {i \in 1..Len(pend) :
                 IsOpen(s, pend[i]) /\ s.task[pend[i]].user # s.task[c].sender_name}
      i == IF hits = {} THEN 0 ELSE CHOOSE k \in hits : \A j \in hits : k <= j
  IN IF i = 0
     THEN Loop(s, c)
     ELSE AwaitSend(s, c, pend[i], HostMute, "mute",
                    SubSeq(pend, i + 1, Len(pend)), {}, "loop")

\* SendPeerList with the joiner missing from the list it is sent.
SendPeerList_WithoutJoiner(s, c) ==
  LET rm == s.task[c].room
      others == Without(s.clients[rm], {c})
      users == [i \in 1..Len(others) |-> s.task[others[i]].user]
  IN IF s.conn[c] = "closed"
     THEN Ended(s, c, "crashed")
     ELSE AwaitSend(s, c, c, PeerList(users, s.host[rm]), "peer_list", <<>>, {}, "none")

\* `await ws.send(peer_list)`: not guarded, so a closed connection ends the
\* handler before its try block, without the disconnect sequence.
SendPeerList(s, c) ==
  LET rm == s.task[c].room
      users == usernames_in_room(s, rm)
  IN IF s.conn[c] = "closed"
     THEN Ended(s, c, "crashed")
     ELSE AwaitSend(s, c, c, PeerList(users, s.host[rm]), "peer_list", <<>>, {}, "none")

\* DeleteRoom that leaves the empty room in the table.
DeleteRoom_Keeps(s, c) == Ended(s, c, "done")

\* The end of the finally block; the handler returns (or re-raises).
DeleteRoom(s, c) ==
  LET rm == s.task[c].room
      s1 == IF s.clients[rm] = <<>>
            THEN [s EXCEPT !.rooms[s.task[c].room_id] = NoRoom]
            ELSE s
  IN Ended(s1, c, "done")

\* Failover that leaves the room without a host.
Failover_Vacant(s, c) ==
  LET rm == s.task[c].room
      user_left == s.task[c].user_left
  IN IF Truthy(user_left) /\ s.host[rm] = user_left
     THEN broadcast([s EXCEPT !.host[rm] = Null], c, HostChanged(Null), NoConn, "delete")
     ELSE DeleteRoom(s, c)

\* Failover that changes the host without telling the room.
Failover_Silent(s, c) ==
  LET rm == s.task[c].room
      user_left == s.task[c].user_left
  IN IF Truthy(user_left) /\ s.host[rm] = user_left
     THEN DeleteRoom([s EXCEPT !.host[rm] = MinName(usernames_in_room(s, rm))], c)
     ELSE DeleteRoom(s, c)

\* The finally block after the peer_left broadcast: host failover.
Failover(s, c) ==
  LET rm == s.task[c].room
      user_left == s.task[c].user_left
  IN IF Truthy(user_left) /\ s.host[rm] = user_left
     THEN LET new_host == MinName(usernames_in_room(s, rm))
          IN broadcast([s EXCEPT !.host[rm] = new_host], c,
                       HostChanged(new_host), NoConn, "delete")
     ELSE DeleteRoom(s, c)

\* The finally block, from its start.
Finally(s, c) ==
  LET rm == s.task[c].room
      user_left == IF InSeq(c, s.clients[rm]) THEN s.task[c].user ELSE Null
      s1 == [s EXCEPT !.clients[rm] = Without(@, {c}),
                      !.owed = @ \ {c},
                      !.out[c] = <<>>,
                      !.task[c] = [@ EXCEPT !.user_left = user_left, !.torn = @ + 1,
                                            !.nth = 0]]
  IN broadcast(s1, c, PeerLeft(user_left), NoConn, "failover")

\* After with no peer_joined broadcast at the end of admission.
After_Unannounced(s, c, ret) ==
  CASE ret = "loop" -> Loop(s, c)
    [] ret = "peer_list" -> SendPeerList(s, c)
    [] ret = "peer_joined" -> Loop(s, c)
    [] ret = "intro_b" ->
         send_to_user(s, c, s.task[c].msg.b,
                      Intro(s.task[c].msg.b, s.task[c].msg.a), "loop")
    [] ret = "chat_echo" ->
         send_to_user(s, c, s.task[c].sender_name,
                      ChatEcho(s.task[c].sender_name, s.task[c].msg), "loop")
    [] ret = "failover" -> Failover(s, c)
    [] ret = "delete" -> DeleteRoom(s, c)

\* After with the joiner not excluded from its own peer_joined.
After_JoinedToAll(s, c, ret) ==
  CASE ret = "loop" -> Loop(s, c)
    [] ret = "peer_list" -> SendPeerList(s, c)
    [] ret = "peer_joined" ->
         broadcast(s, c, PeerJoined(s.task[c].user), NoConn, "loop")
    [] ret = "intro_b" ->
         send_to_user(s, c, s.task[c].msg.b,
                      Intro(s.task[c].msg.b, s.task[c].msg.a), "loop")
    [] ret = "chat_echo" ->
         send_to_user(s, c, s.task[c].sender_name,
                      ChatEcho(s.task[c].sender_name, s.task[c].msg), "loop")
    [] ret = "failover" -> Failover(s, c)
    [] ret = "delete" -> DeleteRoom(s, c)

\* What the handler does when the awaited call of label `ret` has returned.
After(s, c, ret) ==
  CASE ret = "loop" -> Loop(s, c)
    [] ret = "peer_list" -> SendPeerList(s, c)
    [] ret = "peer_joined" ->
         broadcast(s, c, PeerJoined(s.task[c].user), c, "loop")
    [] ret = "intro_b" ->
         send_to_user(s, c, s.task[c].msg.b,
                      Intro(s.task[c].msg.b, s.task[c].msg.a), "loop")
    [] ret = "chat_echo" ->
         send_to_user(s, c, s.task[c].sender_name,
                      ChatEcho(s.task[c].sender_name, s.task[c].msg), "loop")
    [] ret = "failover" -> Failover(s, c)
    [] ret = "delete" -> DeleteRoom(s, c)

\* One frame of the receive loop whose JSON value is a dict: lines 117-215.
Route(s0, c, m) ==
  LET rm == s0.task[c].room
      sender_name == IF InSeq(c, s0.clients[rm]) THEN s0.task[c].user ELSE Anon
      s == [s0 EXCEPT !.task[c] = [@ EXCEPT !.sender_name = sender_name, !.msg = m]]
      type == Get(m, "type")
  IN CASE type = "iam_host" ->
            IF s.host[rm] = Null
            THEN broadcast([s EXCEPT !.host[rm] = sender_name], c,
                           HostChanged(sender_name), NoConn, "loop")
            ELSE Loop(s, c)
       [] type = "host_mute_all" ->
            IF sender_name = s.host[rm]
            THEN MuteLoop([s EXCEPT !.task[c].snap = s.clients[rm]], c, s.clients[rm])
            ELSE Loop(s, c)
       [] type = "host_kick" ->
            LET target == Get(m, "target")
                target_ws == ws_for_username(s, rm, target)
            IN IF sender_name = s.host[rm] /\ Truthy(target)
                  /\ target_ws # NoConn /\ IsOpen(s, target_ws)
               THEN AwaitSend(s, c, target_ws, HostKick(target), "kick", <<>>, {}, "loop")
               ELSE Loop(s, c)
       [] type = "transfer_host" ->
            LET target == Get(m, "to")
            IN IF sender_name = s.host[rm] /\ InSeq(target, usernames_in_room(s, rm))
               THEN broadcast([s EXCEPT !.host[rm] = target], c,
                              HostChanged(target), NoConn, "loop")
               ELSE Loop(s, c)
       [] type = "introduce_pair" ->
            LET a == Get(m, "a")
                b == Get(m, "b")
            IN IF sender_name # s.host[rm] \/ ~Truthy(a) \/ ~Truthy(b)
               THEN Loop(s, c)
               ELSE send_to_user(s, c, a, Intro(a, b), "intro_b")
       [] type = "signal" /\ "to" \in DOMAIN m ->
            LET msg == SetKey(m, "from", sender_name)
            IN send_to_user([s EXCEPT !.task[c].msg = msg], c, m.to, Dict(msg), "loop")
       [] type = "chat" ->
            LET target == Get(m, "to")
            IN IF ChatText(m) = <<>>
               THEN Loop(s, c)
               ELSE IF Truthy(target) /\ target # "*"
               THEN send_to_user(s, c, target, ChatPrivate(sender_name, m), "chat_echo")
               ELSE broadcast(s, c, ChatPayload(sender_name, m), NoConn, "loop")
       [] OTHER -> broadcast(s, c, Dict(m), c, "loop")

\* One frame of the receive loop: lines 109-215.  The frame is numbered, for
\* the record of sends, by the frames that can still come, itself included: a
\* frame received later has a smaller number.  A JSON value that is not a
\* dict has no get(): the AttributeError is not a ConnectionClosed, so it leaves
\* the loop through the finally block and ends the handler.
Handle(s0, c, fr) ==
  LET s == [s0 EXCEPT !.out[c] = <<>>, !.quota.frames = @ - 1,
                      !.task[c].nth = s0.quota.frames]
  IN IF LoadsRaises(fr)
     THEN broadcast(s, c, RawOf(fr), c, "loop")
     ELSE IF Loads(fr).t = "object"
     THEN Route(s, c, Loads(fr).v)
     ELSE Finally(s, c)

\* Admit with the joiner left out of its own host_changed.
Admit_ExceptJoiner(s0, c, room_id, user) ==
  LET fresh == s0.rooms[room_id] = NoRoom
      rm == IF fresh THEN c ELSE s0.rooms[room_id]
      s == [s0 EXCEPT
              !.rooms[room_id] = rm,
              !.clients[rm] = Append(IF fresh THEN <<>> ELSE @, c),
              !.host[rm] = IF fresh THEN Null ELSE @,
              !.conn[c] = "open",
              !.task[c] = [@ EXCEPT !.room_id = room_id, !.user = user, !.room = rm]]
  IN IF s.host[rm] = Null
     THEN broadcast([s EXCEPT !.host[rm] = user], c, HostChanged(user), c, "peer_list")
     ELSE SendPeerList(s, c)

\* The handler from its start to its first await: lines 82-103.
Admit(s0, c, room_id, user) ==
  LET fresh == s0.rooms[room_id] = NoRoom
      rm == IF fresh THEN c ELSE s0.rooms[room_id]
      s == [s0 EXCEPT
              !.rooms[room_id] = rm,
              !.clients[rm] = Append(IF fresh THEN <<>> ELSE @, c),
              !.host[rm] = IF fresh THEN Null ELSE @,
              !.conn[c] = "open",
              !.task[c] = [@ EXCEPT !.room_id = room_id, !.user = user, !.room = rm]]
  IN IF s.host[rm] = Null
     THEN broadcast([s EXCEPT !.host[rm] = user], c, HostChanged(user), NoConn, "peer_list")
     ELSE SendPeerList(s, c)

\* Resumed with the exception of a failed send of broadcast, host_mute_all or
\* send_to_user left to propagate into the finally block.
Resumed_Raising(s, c) ==
  LET tk == s.task[c]
  IN IF ~tk.ok /\ tk.op \in {"broadcast", "send_to_user", "mute"}
     THEN Finally(s, c)
     ELSE CASE tk.op = "broadcast" ->
                 BroadcastLoop(s, c, tk.payload, tk.pend, tk.dead, tk.ret)
            [] tk.op = "send_to_user" -> After(s, c, tk.ret)
            [] tk.op = "mute" -> MuteLoop(s, c, tk.pend)
            [] tk.op = "kick" ->
                 [s EXCEPT !.conn[tk.peer] = "closed", !.task[c].op = "close",
                           !.kicked = @ \cup {tk.peer}]
            [] tk.op = "close" -> Loop(s, c)
            [] tk.op = "peer_list" ->
                 IF tk.ok THEN After(s, c, "peer_joined") ELSE Ended(s, c, "crashed")

\* The handler resumes from an await: lines 57-61, 71-74, 103, 133-136, 147-155.
\* After host_kick's send (whether it raised or not) comes `await target_ws.close()`,
\* which makes the target's open false at once.
Resumed(s, c) ==
  LET tk == s.task[c]
  IN CASE tk.op = "broadcast" ->
            BroadcastLoop(s, c, tk.payload, tk.pend,
                          IF tk.ok THEN tk.dead ELSE tk.dead \cup {tk.peer}, tk.ret)
       [] tk.op = "send_to_user" ->
            After(Returns(s, c, s.task[tk.peer].user, IF tk.ok THEN "true" ELSE "false"),
                  c, tk.ret)
       [] tk.op = "mute" -> MuteLoop(s, c, tk.pend)
       [] tk.op = "kick" ->
            [s EXCEPT !.conn[tk.peer] = "closed", !.task[c].op = "close",
                      !.kicked = @ \cup {tk.peer}]
       [] tk.op = "close" -> Loop(s, c)
       [] tk.op = "peer_list" ->
            IF tk.ok THEN After(s, c, "peer_joined") ELSE Ended(s, c, "crashed")

\* ---------------------------------------------------------------- actions
\* The frames clients send.
TransferFrames ==
  {JsonFrame(Dict([type |-> "transfer_host", to |-> u])) : u \in UserNames}
MuteFrames == {JsonFrame(Dict([type |-> "host_mute_all"]))}
SignalFrames ==
  {JsonFrame(Dict([type |-> "signal", to |-> u, data |-> [x |-> 1]])) : u \in UserNames}
  \cup {JsonFrame(Dict([type |-> "signal", to |-> "bob", from |-> "zig", data |-> [x |-> 1]]))}
\* Frames that are no JSON, JSON objects of no known type, and JSON values
\* that are no object.
TextFrames == {TextFrame("hello")}
UntypedFrames == {JsonFrame(Dict([type |-> "bogus"])), JsonFrame(Dict([x |-> 1]))}
ValueFrames == {JsonFrame(Arr(<<>>)), JsonFrame(Num(7)), JsonFrame(Str("s")),
                JsonFrame(JsonNull)}
JunkFrames ==
  {TextFrame("hello"), JsonFrame(Dict([type |-> "bogus"])), JsonFrame(Arr(<<>>))}
KickFrames ==
  {JsonFrame(Dict([type |-> "host_kick", target |-> u])) : u \in UserNames}
  \cup {JsonFrame(Dict([type |-> "host_kick"]))}
\* The messages of a host that make its handler send to, or close, others.
HostOpFrames == MuteFrames \cup KickFrames
\* Frames that are relayed to the room, and a signal to one member.
OrderedFrames ==
  {JsonFrame(Dict([type |-> "bogus"])),
   JsonFrame(Dict([type |-> "signal", to |-> "bob", data |-> [x |-> 1]]))}
\* The iam_host of the protocol comment (line 12).
IamHostFrames == {JsonFrame(Dict([type |-> "iam_host"]))}
\* The hello of the protocol comment (lines 9-11).
HelloFrames == {JsonFrame(Dict([type |-> "hello"]))}
\* introduce_pair messages that name the two display names, either way round.
PairFrames ==
  {JsonFrame(Dict([type |-> "introduce_pair", a |-> "anon", b |-> "bob"])),
   JsonFrame(Dict([type |-> "introduce_pair", a |-> "bob", b |-> "anon"]))}
\* Signals to a name that connections join under and to one that none does.
SendFrames ==
  {JsonFrame(Dict([type |-> "signal", to |-> u, data |-> [x |-> 1]])) :
     u \in {"bob", "zig"}}
\* A name no connection joins under.
Stranger == "zig"
\* introduce_pair messages whose a and b name members or nobody.
IntroFrames ==
  {JsonFrame(Dict([type |-> "introduce_pair", a |-> a, b |-> b])) :
     a \in UserNames \cup {Stranger}, b \in UserNames \cup {Stranger}}
\* Directed messages of each kind that name nobody, alone or beside a member.
StrangerFrames ==
  {JsonFrame(Dict([type |-> "signal", to |-> Stranger, data |-> [x |-> 1]])),
   JsonFrame(Dict([type |-> "host_kick", target |-> Stranger])),
   JsonFrame(Dict([type |-> "transfer_host", to |-> Stranger])),
   JsonFrame(Dict([type |-> "introduce_pair", a |-> Stranger, b |-> "bob"])),
   JsonFrame(Dict([type |-> "introduce_pair", a |-> "bob", b |-> Stranger]))}
\* Chat: a text with blanks around it, and a text of blanks only.
Hi == <<" ", "h", "i", " ">>
Blank == <<" ", " ">>
PrivateChatFrames ==
  {JsonFrame(Dict([type |-> "chat", text |-> Hi, to |-> u])) : u \in UserNames}
RoomChatFrames ==
  {JsonFrame(Dict([type |-> "chat", text |-> Hi])),
   JsonFrame(Dict([type |-> "chat", text |-> Blank]))}
StarChatFrames ==
  {JsonFrame(Dict([type |-> "chat", text |-> Hi, to |-> "*"])),
   JsonFrame(Dict([type |-> "chat", text |-> Blank, to |-> "*"]))}

\* Client frames that carry a type of the server -> client vocabulary.
ForgedFrames ==
  {JsonFrame(HostMute), JsonFrame(HostChanged("bob")), JsonFrame(PeerLeft("bob")),
   JsonFrame(PeerJoined("zig"))}

\* Whether the transport may break under the send of this run.
Breaks == IF quota.breaks > 0 THEN BOOLEAN ELSE {FALSE}

\* A connection is accepted and its handler runs to its first await.
\* Connections are numbered in the order in which they are accepted.
Join(c) ==
  /\ task[c].pc = "new"
  /\ \A d \in Conns : d < c => task[d].pc # "new"
  /\ \E room_id \in RoomIds, user \in UserNames : \E breaks \in Breaks : Becomes(Admit(Now(breaks), c, room_id, user))

\* An awaited send or close returns, or the send raises.
Resume(c) ==
  /\ task[c].pc = "await"
  /\ \E breaks \in Breaks : Becomes(Resumed(Now(breaks), c))

\* The receive loop gets the next frame of its connection.
Recv(c, frames) ==
  /\ task[c].pc = "recv"
  /\ quota.frames > 0
  /\ \E fr \in frames, breaks \in Breaks : Becomes(Handle(Now(breaks), c, fr))

\* The receive loop ends because the connection is closed.
EndRecv(c) ==
  /\ task[c].pc = "recv"
  /\ conn[c] = "closed"
  /\ \E breaks \in Breaks : Becomes(Finally(Now(breaks), c))

\* The client closes its connection, or the network drops it.
ClientClose(c) ==
  /\ conn[c] = "open"
  /\ quota.closes > 0
  /\ conn' = [conn EXCEPT ![c] = "closed"]
  /\ quota' = [quota EXCEPT !.closes = @ - 1]
  /\ UNCHANGED <<rooms, clients, host, task, out, owed, kicked, wire>>

Next(frames) ==
  \E c \in Conns :
    \/ Join(c)
    \/ Resume(c)
    \/ Recv(c, frames)
    \/ EndRecv(c)
    \/ ClientClose(c)

Spec == Init /\ [][Next(TransferFrames)]_vars
\* The same server when every send goes through.
SpecCalm == InitCalm /\ [][Next(TransferFrames)]_vars
\* The same server with clients that send host_mute_all, or signal, frames.
SpecMute == Init /\ [][Next(MuteFrames)]_vars
SpecSignal == Init /\ [][Next(SignalFrames)]_vars
\* The same server with clients that send private, or room-wide, chat frames.
SpecChat == InitCalm /\ [][Next(PrivateChatFrames)]_vars
SpecRoomChat == Init /\ [][Next(RoomChatFrames)]_vars
\* The same server with clients that send frames of no known form.
SpecJunk == InitCalm /\ [][Next(JunkFrames)]_vars
\* The same server with clients that send host_kick frames.
SpecKick == InitCalm /\ [][Next(KickFrames)]_vars
SpecStranger == Init /\ [][Next(StrangerFrames)]_vars
SpecHostOps == Init /\ [][Next(HostOpFrames)]_vars
SpecIntro == Init /\ [][Next(PairFrames)]_vars
SpecSend == InitTraced /\ [][Next(SendFrames)]_vars
SpecOrdered == InitOrdered /\ [][Next(OrderedFrames)]_vars
SpecTold == InitTold /\ [][Next(TransferFrames)]_vars
SpecHeard == InitHeard /\ [][Next(TransferFrames)]_vars
\* The same server with clients that send messages of the server's own
\* vocabulary (lines 19-25), or host_mute_all.
SpecForged == InitCalm /\ [][Next(ForgedFrames \cup MuteFrames)]_vars

\* ------------------------------------------------------------ vocabulary
Members(o) == {clients[o][i] : i \in 1..Len(clients[o])}
NamesIn(o) == {task[c].user : c \in Members(o)}
Registered == {rooms[r] : r \in RoomIds} \ {NoRoom}
\* The handler of c has ended, with or without its disconnect sequence.
Over(c) == task[c].pc \in {"done", "crashed"}

\* ----------------------------------------------------------------- claims
\* C1: each room's host is none or the display name of a connection that is
\* in the room's members, in every reachable state.
C1_HostIsMember ==
  \A o \in Registered : host[o] = Null \/ host[o] \in NamesIn(o)

\* C2: every room in the registry has at least one member.
C2_NoEmptyRoom ==
  \A o \in Registered : clients[o] # <<>>

\* C3: the disconnect sequence has run exactly once for every connection that
\* was inserted into a room and whose handler has ended.
C3_TornDownOnce ==
  \A c \in Conns : Over(c) => task[c].torn = 1

\* C4: a connection that joins a room id with no entry in the registry is the
\* room's host at the end of the step that adds it to members, and that step
\* sends host_changed naming it to the whole room, which is the joiner alone.
C4_FirstJoinerIsHost ==
  [][\A c \in Conns :
       (task[c].pc = "new" /\ task'[c].pc # "new" /\ rooms[task'[c].room_id] = NoRoom)
       => LET o == task'[c].room
          IN /\ rooms'[task'[c].room_id] = o
             /\ clients'[o] = <<c>>
             /\ host'[o] = task'[c].user
             /\ Len(out'[c]) = 1
             /\ out'[c][1].to = c
             /\ out'[c][1].data = Dumps(HostChanged(task'[c].user))
             /\ task'[c].pend = <<>>]_vars

\* C4's case: the first joiner of a room, suspended in the send of its own
\* host_changed.
C4_Witness ==
  \E c \in Conns :
    /\ task[c].pc = "await" /\ task[c].op = "broadcast" /\ task[c].ret = "peer_list"
    /\ task[c].room = c /\ rooms[task[c].room_id] = c
    /\ host[c] = task[c].user
    /\ out[c] = <<[to |-> c, data |-> Dumps(HostChanged(task[c].user)), ok |-> TRUE]>>

\* The display names of a list of connections after the step, in its order.
NamesAfter(seq) == [i \in 1..Len(seq) |-> task'[seq[i]].user]

\* C5: the peer_list a joiner is sent lists the display names of exactly the
\* connections that are members when it is sent, the joiner among them, and
\* carries the room's host of that moment.
C5_PeerListIsCurrent ==
  [][\A c \in Conns :
       (/\ task'[c].pc = "await" /\ task'[c].op = "peer_list"
        /\ ~(task[c].pc = "await" /\ task[c].op = "peer_list"))
       => LET o == task'[c].room
              sent == out'[c][Len(out'[c])]
          IN /\ sent.to = c
             /\ sent.data = Dumps(PeerList(NamesAfter(clients'[o]), host'[o]))
             /\ InSeq(c, clients'[o])]_vars

\* C5's case: a joiner has been sent its peer_list while another connection is
\* a member and a third one has already left the room.
C5_Witness ==
  \E c \in Conns :
    /\ task[c].pc = "await" /\ task[c].op = "peer_list"
    /\ Len(clients[task[c].room]) = 2
    /\ \E d \in Conns : task[d].pc = "done" /\ task[d].room = task[c].room

\* The step in which the disconnect sequence of c reaches its failover test.
AtFailover(c) ==
  \/ /\ task[c].pc = "await" /\ task[c].ret = "failover"
     /\ ~(task'[c].pc = "await" /\ task'[c].ret = "failover")
  \/ /\ task[c].pc = "recv" /\ task'[c].torn = 1
     /\ ~(task'[c].pc = "await" /\ task'[c].ret = "failover")

\* C6: when the disconnect sequence runs for a connection whose display name
\* is the room's host, the host becomes the smallest display name among the
\* members that remain, or none, and host_changed with that value is broadcast.
C6_FailoverPicksSmallest ==
  [][\A c \in Conns :
       (AtFailover(c) /\ task[c].user = host[task[c].room])
       => LET o == task[c].room
          IN /\ host'[o] = MinName(NamesAfter(clients'[o]))
             /\ \/ /\ task'[c].pc = "await"
                   /\ task'[c].payload = HostChanged(host'[o])
                \/ \A m \in Conns : InSeq(m, clients'[o]) => conn'[m] = "closed"]_vars

\* C8: a room id is absent from the registry before any connection has joined
\* it, and when the disconnect sequence of every connection that joined it has
\* completed.
C8_AbsentBeforeAndAfter ==
  \A r \in RoomIds :
    (\A c \in Conns : task[c].room_id = r => task[c].pc = "done") => rooms[r] = NoRoom

\* C8's case: three connections joined the room, and the last of them has
\* completed its disconnect sequence.
C8_Witness ==
  /\ \A c \in Conns : task[c].pc = "done" /\ task[c].room_id = "r9"
  /\ rooms["r9"] = NoRoom

\* The frame of a send is of the given type.
IsOfType(payload, type) == payload.t = "object" /\ Get(payload.v, "type") = type

\* A handler is on its way to send m a host_changed: m is still ahead in a
\* host_changed broadcast, or a disconnect sequence that will fail the host
\* over is still in its peer_left broadcast.
HostChangedAhead(m) ==
  \E c \in Conns :
    /\ task[c].pc = "await"
    /\ \/ IsOfType(task[c].payload, "host_changed") /\ InSeq(m, task[c].pend)
       \/ /\ task[c].ret = "failover"
          /\ Truthy(task[c].user_left)
          /\ host[task[c].room] = task[c].user_left
          /\ InSeq(m, clients[task[c].room])

\* Among the sends of a disconnect sequence no host_changed precedes a peer_left.
PeerLeftFirst ==
  \A c \in Conns :
    task[c].torn = 1 =>
      \A i, j \in 1..Len(out[c]) :
        (i < j /\ IsOfType(out[c][i].data.val, "host_changed"))
        => ~IsOfType(out[c][j].data.val, "peer_left")

Recipients(sends) == [i \in 1..Len(sends) |-> sends[i].to]

\* C9: a host_mute_all from a sender whose display name is not the room's
\* host causes no send; and when the mute loop of a sender that had the host's
\* name is over, nothing but host_mute was sent, no connection was sent two,
\* none went to the sender or to its name, and every connection of the
\* snapshot that is still open and has another name was sent one.
C9_MuteAllOnlyFromHost ==
  /\ [](\A c \in Conns :
          (task[c].pc = "recv" /\ task[c].user # host[task[c].room])
          => \A fr \in MuteFrames :
               Handle(Now(FALSE), c, fr).out[c] = <<>>)
  /\ [][\A c \in Conns :
          (task[c].pc = "await" /\ task[c].op = "mute" /\ task'[c].pc = "recv"
             /\ task[c].user = task[c].sender_name)
          => LET to == Recipients(out[c])
             IN /\ \A i \in 1..Len(to) : out[c][i].data = Dumps(HostMute)
                /\ \A i, j \in 1..Len(to) : to[i] = to[j] => i = j
                /\ \A i \in 1..Len(to) : to[i] # c /\ task[to[i]].user # task[c].user
                /\ \A m \in Conns :
                     (InSeq(m, task[c].snap) /\ conn'[m] = "open"
                        /\ task[m].user # task[c].user)
                     => InSeq(m, to)]_vars

\* C10: a signal whose to names a member with an open connection is sent once,
\* to a member of that name, as {type, to, from, data} with from the sender's
\* admitted display name and to and data as received.
C10_SignalToTargetOnly ==
  \A c \in Conns : \A fr \in SignalFrames :
    LET m == Loads(fr).v
        named == {d \in Members(task[c].room) : task[d].user = m.to}
        sends == Handle(Now(FALSE), c, fr).out[c]
    IN (task[c].pc = "recv" /\ named # {} /\ \A d \in named : conn[d] = "open")
       => /\ Len(sends) = 1
          /\ sends[1].to \in named
          /\ sends[1].data = Dumps(Dict([type |-> "signal", to |-> m.to,
                                         from |-> task[c].user, data |-> m.data]))

\* The run of c on frame fr from the current state, and the run that follows
\* when its first send returns at once.
FirstRun(c, fr) == Handle(Now(FALSE), c, fr)
TwoRuns(c, fr) ==
  LET s == FirstRun(c, fr)
  IN IF s.task[c].pc = "await" THEN Resumed(s, c) ELSE s

\* The members of the room of c that have the display name u.
Named(c, u) == {d \in Members(task[c].room) : task[d].user = u}

\* C11: a chat with a text and a to that names a member is delivered twice
\* and no more: as {chat, from: sender, text, private} to a connection of that
\* name, then with to added to the sending connection.  Stated for a sender
\* that is a member with an open connection and a target whose connection is
\* open.
C11_PrivateChatTwoDeliveries ==
  \A c \in Conns : \A fr \in PrivateChatFrames :
    LET m == Loads(fr).v
        sends == TwoRuns(c, fr).out[c]
        chat == [type |-> "chat", from |-> task[c].user, text |-> <<"h", "i">>,
                 private |-> TRUE]
    IN (/\ task[c].pc = "recv" /\ conn[c] = "open" /\ c \in Members(task[c].room)
        /\ Named(c, m.to) # {} /\ \A d \in Named(c, m.to) : conn[d] = "open")
       => /\ Len(sends) = 2
          /\ sends[1].to \in Named(c, m.to)
          /\ sends[1].data = Dumps(Dict(chat))
          /\ sends[2].to = c
          /\ sends[2].data = Dumps(Dict(SetKey(chat, "to", m.to)))

\* The room-wide chat payload the claim expects of sender c.
RoomChat(c) == Dict([type |-> "chat", from |-> task[c].user, text |-> <<"h", "i">>])

\* C12: a chat whose to is absent or "*" and whose text is blank causes no
\* send; with a text, its first send carries {chat, from: sender, text} with
\* the text trimmed, and when its broadcast is over every send carried that
\* payload, no connection was sent two, and every connection of the snapshot
\* that is still open was sent one.
C12_RoomChatToEveryMember ==
  /\ [](\A c \in Conns : \A fr \in RoomChatFrames \cup StarChatFrames :
          LET sends == FirstRun(c, fr).out[c]
          IN task[c].pc = "recv"
             => IF Loads(fr).v.text = Blank
                THEN sends = <<>>
                ELSE \A i \in 1..Len(sends) : sends[i].data = Dumps(RoomChat(c)))
  /\ [][\A c \in Conns :
          (/\ task[c].pc = "await" /\ task[c].op = "broadcast"
           /\ IsOfType(task[c].payload, "chat") /\ task'[c].pc = "recv")
          => LET to == Recipients(out[c])
             IN /\ \A i \in 1..Len(to) : out[c][i].data = Dumps(RoomChat(c))
                /\ \A i, j \in 1..Len(to) : to[i] = to[j] => i = j
                /\ \A m \in Conns :
                     (InSeq(m, task[c].snap) /\ conn'[m] = "open") => InSeq(m, to)]_vars

\* C13: a host_kick that names a present member sends host_kick{to: target}
\* to that member's connection and then closes it; the disconnect sequence of
\* a kicked connection finds it in members, removes it and broadcasts a
\* peer_left naming it; and a kicked connection whose handler has ended is in
\* no room and has run its disconnect sequence.
C13_KickedMemberLeaves ==
  /\ [][\A k \in Conns :
          (task'[k].pc = "await" /\ task'[k].op = "kick" /\ task[k].pc = "recv")
          => LET target == task'[k].msg.target
             IN /\ out'[k] = <<[to |-> task'[k].peer, data |-> Dumps(HostKick(target)),
                                ok |-> TRUE]>>
                /\ task'[k].peer \in Named(k, target)]_vars
  /\ [][\A k \in Conns :
          (task[k].pc = "await" /\ task[k].op = "kick" /\ task'[k] # task[k])
          => conn'[task[k].peer] = "closed" /\ task[k].peer \in kicked']_vars
  /\ [][\A c \in kicked :
          (task[c].torn = 0 /\ task'[c].torn = 1)
          => /\ InSeq(c, clients[task[c].room])
             /\ ~InSeq(c, clients'[task[c].room])
             /\ \A i \in 1..Len(out'[c]) :
                  IsOfType(out'[c][i].data.val, "peer_left")
                  => out'[c][i].data = Dumps(PeerLeft(task[c].user))]_vars
  /\ [](\A c \in kicked :
          Over(c) => task[c].torn = 1 /\ \A o \in Objs : ~InSeq(c, clients[o]))

\* What a relay of frame fr carries: the JSON value of the frame, or, for a
\* frame that is no JSON, its text as a JSON string.
Relayed(fr) == IF fr.fmt = "json" THEN fr ELSE JsonFrame(Str(fr.raw))

\* C14: for a frame that is no JSON, or a JSON object of no known type, or a
\* JSON value that is no object, the receive loop of the sender goes on, the
\* rooms, their members and hosts are as before, and the frame is relayed to
\* the other members and not to the sender.  Stated for a sender that is a
\* member, and for the run up to the first send when no send fails.
C14_MalformedIsRelayed ==
  \A c \in Conns : \A fr \in TextFrames \cup UntypedFrames \cup ValueFrames :
    LET s == FirstRun(c, fr)
        others == {d \in Members(task[c].room) \ {c} : conn[d] = "open"}
    IN (task[c].pc = "recv" /\ c \in Members(task[c].room))
       => /\ s.task[c].pc \in {"recv", "await"} /\ s.task[c].torn = 0
          /\ s.rooms = rooms /\ s.clients = clients /\ s.host = host
          /\ s.conn = conn
          /\ \A i \in 1..Len(s.out[c]) :
               s.out[c][i].to \in others /\ s.out[c][i].data = Relayed(fr)
          /\ others # {} => Len(s.out[c]) = 1

\* C15: a host_kick, transfer_host or introduce_pair received from a connection
\* whose display name is not the host of its room changes no room, no member
\* list, no host, closes no connection and sends nothing: the handler is back
\* at its receive loop without having awaited a send.
C15_NonHostIsIgnored ==
  \A c \in Conns : \A fr \in KickFrames \cup TransferFrames \cup IntroFrames :
    LET s == FirstRun(c, fr)
    IN (task[c].pc = "recv" /\ task[c].user # host[task[c].room])
       => /\ s.task[c].pc = "recv" /\ s.out[c] = <<>>
          /\ s.rooms = rooms /\ s.clients = clients /\ s.host = host
          /\ s.conn = conn

\* The sends of s.out[c] address no payload to the name u.
NoneFor(s, c, u) ==
  \A i \in 1..Len(s.out[c]) :
    LET p == s.out[c][i].data.val
    IN ~(p.t = "object" /\ Get(p.v, "to") = u)

\* Members and hosts in s are those of the current state.
SameRooms(s) == s.rooms = rooms /\ s.clients = clients /\ s.host = host

\* The names a message can carry, and for each the directed messages and the
\* introduce_pair messages that carry it.
AllNames == UserNames \cup {Stranger}
DirectedAt ==
  [u \in AllNames |->
     {JsonFrame(Dict([type |-> "signal", to |-> u, data |-> [x |-> 1]])),
      JsonFrame(Dict([type |-> "host_kick", target |-> u])),
      JsonFrame(Dict([type |-> "transfer_host", to |-> u]))}]
IntroOf ==
  [a \in AllNames |->
     [b \in AllNames |-> JsonFrame(Dict([type |-> "introduce_pair", a |-> a, b |-> b]))]]

\* C16: a signal, host_kick or transfer_host directed at a name that no member
\* has is back at the receive loop with no send, nothing closed and members and
\* hosts as before; an introduce_pair with such a name addresses nothing to it
\* and changes no members and no host, and when it comes from the host and its
\* other name is a member with an open connection, its one send is the intro
\* of that member.  Stated for sends that return and for sends that raise.
C16_UnknownTargetIsDropped ==
  \A c \in Conns :
    task[c].pc = "recv"
    => \A u \in AllNames \ NamesIn(task[c].room) :
         /\ \A fr \in DirectedAt[u] :
              LET s == FirstRun(c, fr)
              IN s.task[c].pc = "recv" /\ s.out[c] = <<>> /\ SameRooms(s)
                 /\ s.conn = conn
         /\ \A v \in AllNames : \A br \in Breaks :
              \A fr \in {IntroOf[u][v], IntroOf[v][u]} :
                LET s1 == Handle(Now(br), c, fr)
                    s2 == IF s1.task[c].pc = "await" THEN Resumed(s1, c) ELSE s1
                IN /\ NoneFor(s1, c, u) /\ NoneFor(s2, c, u)
                   /\ SameRooms(s1) /\ SameRooms(s2)
                   /\ s2.task[c].pc = "recv"
                   /\ (c \in Members(task[c].room) /\ task[c].user = host[task[c].room]
                       /\ Named(c, v) # {} /\ \A d \in Named(c, v) : conn[d] = "open")
                      => /\ Len(s1.out[c]) = 1
                         /\ s1.out[c][1].to \in Named(c, v)
                         /\ s1.out[c][1].data = Dumps(Intro(v, u))

\* An introduce_pair one of whose names no member has is sending, or has just
\* sent, the intro of its other name.
C16_Witness ==
  \E c \in Conns :
    /\ task[c].pc = "await" /\ task[c].op = "send_to_user"
    /\ IsOfType(Dict(task[c].msg), "introduce_pair")
    /\ \E u \in {task[c].msg.a, task[c].msg.b} : Named(c, u) = {}
    /\ Len(out[c]) = 1 /\ task[out[c][1].to].user \in {task[c].msg.a, task[c].msg.b}

\* The step of handler c on which the broadcast it is suspended in comes to the
\* end of its snapshot.
BroadcastEnds(c) ==
  /\ task[c].pc = "await" /\ task[c].op = "broadcast" /\ task'[c] # task[c]
  /\ ~(task'[c].pc = "await" /\ task'[c].op = "broadcast"
       /\ task'[c].payload = task[c].payload)

\* The sends of the broadcast handler c is suspended in.
SentIn(c) == {i \in 1..Len(out[c]) : out[c][i].data = Dumps(task[c].payload)}

\* C17: when a broadcast ends, every connection of its snapshot, other than the
\* broadcasting one, that is closed and was passed over or whose send raised is
\* out of the room's members; no connection was sent two; every connection of
\* the snapshot, other than the broadcasting one, that is still open was sent
\* one; and the handler goes on with the statement after the broadcast: it
\* ends on an exception only where that statement is the send of peer_list.
C17_BroadcastPrunesAndGoesOn ==
  [][\A c \in Conns :
       BroadcastEnds(c)
       => LET sent == SentIn(c)
              got == {out[c][i].to : i \in {k \in sent : out[c][k].ok}}
          IN /\ \A m \in Conns \ {c} :
                  (InSeq(m, task[c].snap) /\ conn'[m] = "closed" /\ m \notin got)
                  => ~InSeq(m, clients'[task[c].room])
             /\ \A i, j \in sent : out[c][i].to = out[c][j].to => i = j
             /\ \A m \in Conns \ {c} :
                  (InSeq(m, task[c].snap) /\ conn'[m] = "open") => m \in got
             /\ task'[c].pc = "crashed" => task[c].ret = "peer_list"]_vars

\* Handler c is in its receive loop, or suspended in a call made from it or
\* from the peer_joined broadcast that leads into it.
InLoop(c) ==
  /\ task[c].pc \in {"recv", "await"} /\ task[c].torn = 0
  /\ task[c].op # "peer_list" /\ task[c].ret # "peer_list"

\* C18: a handler leaves its receive loop only when its own connection is
\* closed: a step on which a handler that was in its loop ends, or starts its
\* disconnect sequence, is a step of a handler whose connection was closed
\* before it; so whatever a send to, or a close of, another connection did, the
\* handler is back at its loop or at its next send.
C18_OthersFailuresKeepLoop ==
  [][\A c \in Conns :
       (InLoop(c) /\ ~(task'[c].pc \in {"recv", "await"} /\ task'[c].torn = 0))
       => conn[c] = "closed"]_vars

\* A handler whose connection is open is suspended, in its receive loop, in a
\* send to another connection that raised.
C18_Witness ==
  \E c \in Conns :
    /\ InLoop(c) /\ task[c].pc = "await" /\ task[c].ret = "loop"
    /\ task[c].op \in {"broadcast", "mute", "kick"}
    /\ ~task[c].ok /\ task[c].peer # c /\ conn[c] = "open"

\* The recorded sends from handler s to connection r, in their order.
SentTo(s, r) ==
  SelectSeq(wire.log, LAMBDA e : e.from = s /\ e.to = r)

\* C19: for every sender and recipient, the sends to the recipient that the
\* sender's incoming frames caused were invoked in the order in which those
\* frames were received: no send for an earlier frame follows a send for a
\* later one.
C19_SendsFollowReceipt ==
  \A s \in Conns, r \in Conns :
    LET q == SentTo(s, r)
    IN \A i, j \in 1..Len(q) : i < j => q[i].nth >= q[j].nth

\* A recipient has been sent to for two successive frames of one sender.
C19_Witness ==
  \E s \in Conns, r \in Conns :
    LET q == SentTo(s, r)
    IN Len(q) >= 2 /\ q[1].nth # q[Len(q)].nth /\ s # r

\* Connection p was registered in a room and is in its members no more.
Removed(p) == task[p].pc # "new" /\ ~InSeq(p, clients[task[p].room])

\* On this step handler c invokes a send of a broadcast, a directed send, a
\* mute-all or a kick on connection p.
SendsTo(c, p) ==
  /\ task'[c].pc = "await" /\ task'[c] # task[c]
  /\ task'[c].op \in {"broadcast", "send_to_user", "mute", "kick"}
  /\ task'[c].peer = p

\* C20: no broadcast, directed send, mute-all or kick invokes a send on a
\* connection that was out of its room's members before the step of the send.
C20_NoSendAfterRemoval ==
  [][\A c \in Conns, p \in Conns : SendsTo(c, p) => ~Removed(p)]_vars

\* C21: a hello received from a member is ignored: its handler is back at its
\* receive loop with no send invoked, and rooms, members, hosts and
\* connections are as before.
C21_HelloIsIgnored ==
  \A c \in Conns : \A fr \in HelloFrames :
    LET s == FirstRun(c, fr)
    IN (task[c].pc = "recv" /\ c \in Members(task[c].room))
       => s.task[c].pc = "recv" /\ s.out[c] = <<>> /\ SameRooms(s) /\ s.conn = conn

\* C22: in every reachable state a room object with at least one member,
\* registered or not, has a host that is not None.
C22_MembersHaveHost ==
  \A o \in Objs : clients[o] # <<>> => host[o] # Null

\* A room whose host has run its disconnect sequence still has members.
C22_Witness ==
  \E o \in Registered : \E c \in Conns :
    /\ clients[o] # <<>> /\ task[c].room = o /\ task[c].pc = "done"
    /\ task[c].user \notin NamesIn(o) /\ host[o] # task[c].user

\* The messages that only the host may send.
HostGated == KickFrames \cup TransferFrames \cup IntroFrames \cup MuteFrames

\* On this step handler c, a member with the host's name, takes a transfer_host
\* that names a member.
TakesTransfer(c) ==
  /\ task[c].pc = "recv" /\ task'[c].nth # 0
  /\ IsOfType(Dict(task'[c].msg), "transfer_host")
  /\ c \in Members(task[c].room) /\ task[c].user = host[task[c].room]
  /\ task'[c].msg.to \in NamesIn(task[c].room)

\* C23: the step that takes a transfer_host from the host naming a member sets
\* the room's host to that name and, if any member is open, invokes the send of
\* host_changed naming it; when that broadcast is over every member of its
\* snapshot that is still open, the sender included, was sent it; and in every
\* state a host-gated message from a connection whose display name is not the
\* room's host, as the previous host's is not, has no effect.
C23_TransferHost ==
  /\ [](\A c \in Conns : \A fr \in HostGated :
          LET s == FirstRun(c, fr)
          IN (task[c].pc = "recv" /\ task[c].user # host[task[c].room])
             => s.task[c].pc = "recv" /\ SameRooms(s) /\ s.conn = conn)
  /\ [][\A c \in Conns :
          TakesTransfer(c)
          => /\ host'[task[c].room] = task'[c].msg.to
             /\ task'[c].pc = "await"
                => /\ task'[c].op = "broadcast"
                   /\ task'[c].payload = HostChanged(task'[c].msg.to)
             /\ task'[c].pc = "recv"
                => \A m \in Members(task[c].room) : conn[m] # "open"]_vars
  /\ [][\A c \in Conns :
          (task[c].pc = "await" /\ task[c].op = "broadcast" /\ task[c].nth # 0
           /\ IsOfType(Dict(task[c].msg), "transfer_host") /\ task'[c].pc = "recv")
          => \A m \in Conns :
               (InSeq(m, task[c].snap) /\ conn'[m] = "open")
               => \E i \in 1..Len(out[c]) :
                    /\ out[c][i].to = m
                    /\ out[c][i].data = Dumps(HostChanged(task[c].msg.to))]_vars

\* The signal the claim expects an introduce_pair to send to `to`.
IntroSignal(to, other) ==
  Dict([type |-> "signal", to |-> to, from |-> "host",
        data |-> [type |-> "intro", other |-> other]])

\* Handler c is handling an introduce_pair in the state given by tk = task[c].
Introducing(tk) == tk.nth # 0 /\ IsOfType(Dict(tk.msg), "introduce_pair")

\* Every member named u exists and is open.
AllOpen(c, u) == Named(c, u) # {} /\ \A d \in Named(c, u) : conn[d] = "open"

\* tk is suspended in the send of the intro of `to` to a member of that name.
SendsIntro(c, tk, to, other, ret) ==
  /\ tk.pc = "await" /\ tk.op = "send_to_user" /\ tk.ret = ret
  /\ tk.peer \in Named(c, to) /\ tk.payload = IntroSignal(to, other)

\* C24: the step that takes an introduce_pair{a, b} from a member with the
\* host's name invokes, when a names open members, the send of the intro of a
\* (other: b) to a member named a; the step after it invokes, when b names open
\* members, the send of the intro of b (other: a) to a member named b; the
\* step after that is back at the receive loop; every send invoked for the
\* message is one of these two; and no step of it changes rooms, members or
\* hosts.
C24_IntroducePair ==
  [][\A c \in Conns :
       LET m == task'[c].msg
           rm == task[c].room
       IN /\ (task[c].pc = "recv" /\ Introducing(task'[c]) /\ c \in Members(rm)
              /\ task[c].user = host[rm])
             => /\ rooms' = rooms /\ clients' = clients /\ host' = host
                /\ AllOpen(c, m.a) => SendsIntro(c, task'[c], m.a, m.b, "intro_b")
                /\ (task'[c].pc = "await" /\ task'[c].ret = "loop")
                   => SendsIntro(c, task'[c], m.b, m.a, "loop")
                /\ task'[c].pc = "recv"
                   => ~AllOpen(c, m.a) /\ ~AllOpen(c, m.b)
          /\ (task[c].pc = "await" /\ Introducing(task[c]) /\ task'[c] # task[c])
             => /\ rooms' = rooms /\ clients' = clients /\ host' = host
                /\ IF task[c].ret = "intro_b"
                   THEN /\ AllOpen(c, task[c].msg.b)
                           => SendsIntro(c, task'[c], task[c].msg.b, task[c].msg.a, "loop")
                        /\ task'[c].pc = "recv" => ~AllOpen(c, task[c].msg.b)
                        /\ task'[c].pc \in {"recv", "await"}
                   ELSE task'[c].pc = "recv"]_vars

\* An introduce_pair has sent the intro of a and is sending the intro of b.
C24_Witness ==
  \E c \in Conns :
    /\ Introducing(task[c]) /\ task[c].pc = "await" /\ task[c].ret = "loop"
    /\ Len(out[c]) = 2 /\ out[c][1].ok /\ out[c][2].ok
    /\ out[c][1].to # out[c][2].to

\* C25: a handler that takes a JSON object from its receive loop and goes on
\* to a send routes it with sender_name equal to the display name its
\* connection was admitted under.
C25_SenderIsAdmittedName ==
  [][\A c \in Conns :
       (task[c].pc = "recv" /\ task'[c].pc = "await" /\ task'[c].nth # 0
        /\ task'[c].msg # NoMsg)
       => task'[c].sender_name = task[c].user]_vars

\* C26: no send carries a peer_left whose user is None; and the step on which
\* a handler starts its disconnect sequence goes on, when a remaining member
\* is open, to the send of peer_left with the display name of its connection.
C26_PeerLeftNamesTheLeaver ==
  /\ [](\A c \in Conns : \A i \in 1..Len(out[c]) :
          out[c][i].data # Dumps(PeerLeft(Null)))
  /\ [][\A c \in Conns :
          (task[c].torn = 0 /\ task'[c].torn = 1 /\ task'[c].pc = "await")
          => /\ task'[c].op = "broadcast"
             /\ task'[c].payload = PeerLeft(task[c].user)]_vars

\* The server has nothing left to do for connection c unless its client acts:
\* its handler has not started, or has ended, or waits for a frame of an open
\* connection.
Settled(c) ==
  \/ task[c].pc \in {"new", "done", "crashed"}
  \/ task[c].pc = "recv" /\ conn[c] = "open"

\* C27: when the server has come to rest, every registered room that has
\* members has the display name of one of them as its host; so a host that
\* stopped being a member while others remained has been replaced by then.
C27_HostReplacedAtRest ==
  (\A c \in Conns : Settled(c))
  => \A o \in Registered : clients[o] # <<>> => host[o] \in NamesIn(o)

\* Handler c is in its admission, suspended in one of its sends.
Admitting(c) ==
  task[c].pc = "await" /\ task[c].torn = 0 /\ task[c].nth = 0

\* The place of a send in the order of admission.
Stage(send) ==
  IF IsOfType(send.data.val, "host_changed") THEN 1
  ELSE IF IsOfType(send.data.val, "peer_list") THEN 2
  ELSE IF IsOfType(send.data.val, "peer_joined") THEN 3
  ELSE 0

\* C28: the sends a handler has invoked in its admission are host_changed
\* sends, then at most one peer_list, to the joiner, then peer_joined sends
\* that name the joiner and go to other connections, the peer_list ahead of
\* them; the admission starts with host_changed when the room had no host
\* and with the peer_list when it had one; and when the admission is over,
\* every other connection of the snapshot that is still open was sent
\* peer_joined.
C28_AdmissionOrder ==
  /\ [](\A c \in Conns :
          Admitting(c)
          => /\ \A i \in 1..Len(out[c]) : Stage(out[c][i]) # 0
             /\ \A i, j \in 1..Len(out[c]) :
                  i < j => /\ Stage(out[c][i]) <= Stage(out[c][j])
                           /\ Stage(out[c][j]) # 2 \/ Stage(out[c][i]) # 2
             /\ \A i \in 1..Len(out[c]) :
                  /\ Stage(out[c][i]) = 2 => out[c][i].to = c
                  /\ Stage(out[c][i]) = 3
                     => /\ out[c][i].to # c
                        /\ out[c][i].data = Dumps(PeerJoined(task[c].user))
                        /\ \E k \in 1..(i - 1) : Stage(out[c][k]) = 2 /\ out[c][k].ok)
  /\ [][\A c \in Conns :
          (task[c].pc = "new" /\ task'[c].pc = "await")
          => LET rid == task'[c].room_id
                 hosted == rooms[rid] # NoRoom /\ host[rooms[rid]] # Null
             IN /\ Len(out'[c]) = 1
                /\ Stage(out'[c][1]) = IF hosted THEN 2 ELSE 1]_vars
  /\ [][\A c \in Conns :
          (Admitting(c) /\ task'[c].pc = "recv")
          => \A m \in Conns \ {c} :
               (InSeq(m, task[c].snap) /\ conn'[m] = "open" /\ task[c].op = "broadcast")
               => \E i \in 1..Len(out[c]) : out[c][i].to = m /\ Stage(out[c][i]) = 3]_vars

\* An admission has sent host_changed and peer_list and is sending peer_joined.
C28_Witness ==
  \E c \in Conns :
    /\ Admitting(c) /\ Len(out[c]) = 3
    /\ Stage(out[c][1]) = 1 /\ Stage(out[c][2]) = 2 /\ Stage(out[c][3]) = 3

\* The handlers that are suspended inside a send on connection p.
Sending(p) ==
  {c \in Conns : /\ task[c].pc = "await" /\ task[c].peer = p
                 /\ task[c].op \in {"broadcast", "send_to_user", "mute", "kick",
                                    "peer_list"}}

\* C29: in every reachable state at most one handler is suspended inside a
\* send on any one connection.
C29_OneSendAtATime ==
  \A p \in Conns : Cardinality(Sending(p)) <= 1

\* On this step a send_to_user call of handler c returns.
CallReturns(c) == wire'.rv[c] # wire.rv[c]

\* C30: a step on which send_to_user is called, is suspended in its send, or
\* returns changes no room, no members and no host; a call is suspended in a
\* send exactly when the first member of the name is open, and the send is to
\* that member; a call that returns without a send returns False; and a call
\* that returns from its send returns True when the send completed and False
\* when it raised.
C30_SendToUser ==
  [][\A c \in Conns :
       /\ (CallReturns(c) \/ (task'[c].pc = "await" /\ task'[c].op = "send_to_user"
                               /\ task'[c] # task[c]))
          => rooms' = rooms /\ clients' = clients /\ host' = host
       /\ (task[c].pc = "recv" /\ task'[c].pc = "await" /\ task'[c].op = "send_to_user")
          => LET first == ws_for_username(Now(FALSE), task[c].room, task'[c].msg.to)
             IN /\ first # NoConn /\ conn[first] = "open" /\ task'[c].peer = first
                /\ ~CallReturns(c)
       /\ (task[c].pc = "recv" /\ CallReturns(c))
          => LET first == ws_for_username(Now(FALSE), task[c].room, wire'.rv[c].to)
             IN /\ wire'.rv[c].val = "false"
                /\ first = NoConn \/ conn[first] # "open"
       /\ (task[c].pc = "await" /\ task[c].op = "send_to_user" /\ task'[c] # task[c])
          => /\ wire'.rv[c].to = task[task[c].peer].user
             /\ wire'.rv[c].val = IF out[c][Len(out[c])].ok THEN "true" ELSE "false"
             /\ out[c][Len(out[c])].to = task[c].peer]_vars

\* send_to_user has returned True from a send to a member of the name it was
\* called with.
C30_Witness ==
  \E c \in Conns : wire.rv[c].val = "true" /\ wire.rv[c].to = "bob"

\* The run of handler c that starts at state s, followed through the returns
\* of at most n sends, up to the last state in which it is still in a send.
RECURSIVE Through(_, _, _)
Through(s, c, n) ==
  IF n = 0 \/ s.task[c].pc # "await" THEN s
  ELSE LET t == Resumed(s, c)
       IN IF t.task[c].pc = "await" THEN Through(t, c, n - 1) ELSE s

\* C31: a frame that is no JSON, or a JSON object of no known type, is sent on
\* as it was received, the text itself or the same object, to every other
\* member whose connection is open, and never to its sender.
C31_BlindRelayUnchanged ==
  \A c \in Conns : \A fr \in TextFrames \cup UntypedFrames :
    LET s == Through(FirstRun(c, fr), c, NumConns)
        others == {d \in Members(task[c].room) \ {c} : conn[d] = "open"}
    IN task[c].pc = "recv"
       => /\ \A i \in 1..Len(s.out[c]) :
               s.out[c][i].to # c /\ s.out[c][i].data = fr
          /\ \A d \in others : \E i \in 1..Len(s.out[c]) : s.out[c][i].to = d

\* The receive loop of c is still running: c was admitted and its disconnect
\* sequence has not started.
Running(c) == task[c].pc \in {"recv", "await"} /\ task[c].torn = 0

\* C32: connections admitted under one room id whose receive loops are still
\* running are members of one and the same room object; and the step on which
\* a handler ends its disconnect sequence removes from the registry no room
\* object other than the one its connection was admitted to.
C32_OneRoomPerId ==
  /\ [](\A c, d \in Conns :
          (Running(c) /\ Running(d) /\ task[c].room_id = task[d].room_id)
          => /\ task[c].room = task[d].room
             /\ InSeq(c, clients[task[c].room]) /\ InSeq(d, clients[task[c].room]))
  /\ [][\A c \in Conns : \A r \in RoomIds :
          (task[c].pc # "done" /\ task'[c].pc = "done"
             /\ rooms[r] # NoRoom /\ rooms'[r] = NoRoom)
          => rooms[r] = task[c].room]_vars

\* The types of the messages the server generates about a room.
ServerTypes ==
  {"host_mute", "host_kick", "host_changed", "peer_left", "peer_joined", "peer_list"}

\* On this step handler c invokes a send.
Invokes(c) == out'[c] # out[c] /\ out'[c] # <<>>

\* The handler in state tk is at the place of the code that generates messages
\* of the given type: the mute loop, the kick, the peer_list and peer_joined of
\* admission, the peer_left of the disconnect sequence, and for host_changed
\* the election of admission, iam_host, transfer_host and the failover.
ByRule(tk, type) ==
  CASE type = "host_mute" -> tk.op = "mute"
    [] type = "host_kick" -> tk.op = "kick"
    [] type = "peer_list" -> tk.op = "peer_list"
    [] type = "peer_joined" ->
         tk.op = "broadcast" /\ tk.ret = "loop" /\ tk.nth = 0 /\ tk.torn = 0
    [] type = "peer_left" -> tk.op = "broadcast" /\ tk.ret = "failover" /\ tk.torn = 1
    [] type = "host_changed" ->
         /\ tk.op = "broadcast"
         /\ \/ tk.nth = 0 /\ tk.ret \in {"peer_list", "delete"}
            \/ /\ tk.nth # 0 /\ tk.ret = "loop"
               /\ Get(tk.msg, "type") \in {"iam_host", "transfer_host"}

\* C33: every send of a host_mute, host_kick, host_changed, peer_left,
\* peer_joined or peer_list is invoked at the place of the code that generates
\* that type; and the step that takes a frame from a connection whose display
\* name is not its room's host invokes no send of one of these types.
C33_ServerTypesOnlyByRule ==
  [][\A c \in Conns :
       Invokes(c)
       => LET p == out'[c][Len(out'[c])].data.val
          IN (p.t = "object" /\ Get(p.v, "type") \in ServerTypes)
             => /\ ByRule(task'[c], Get(p.v, "type"))
                /\ ~(/\ task[c].pc = "recv" /\ task'[c].nth # 0
                     /\ task[c].user # host[task[c].room])]_vars

\* C34: when the server has come to rest, every member of a registered room
\* whose connection is open was last told, by host_changed or peer_list, of
\* the host its room has.
C34_LastToldIsHost ==
  (\A c \in Conns : Settled(c))
  => \A o \in Registered : \A m \in Members(o) :
       conn[m] = "open" => wire.told[m] = host[o]

\* The admission of c is over and c is a member of room object o.
Admitted(c, o) ==
  /\ task[c].pc \in {"recv", "await"} /\ ~Admitting(c)
  /\ InSeq(c, clients[o])

C36_PeerListHostIsListed ==
  \A c \in Conns : \A i \in 1..Len(out[c]) :
    LET p == out[c][i].data.val
    IN IsOfType(p, "peer_list") => p.v.host = Null \/ InSeq(p.v.host, p.v.users)

\* The step is one of handler c that elects c at its join into room o, which
\* had no host.
Elects(c, o) ==
  task[c].pc = "new" /\ host[o] = Null /\ host'[o] = task'[c].user

\* Frame fr is an iam_host taken in a room without a host, or a transfer_host
\* taken from a connection that has the host's name.
MayChangeHost(c, fr) ==
  LET m == Loads(fr).v
      o == task[c].room
  IN \/ Get(m, "type") = "iam_host" /\ host[o] = Null
     \/ Get(m, "type") = "transfer_host" /\ task[c].user = host[o]

\* The step is one of the disconnect sequence of c, which has the host's name.
ChangesByLeave(c, o) == task'[c].torn = 1 /\ task[c].user = host[o]

\* A connection accepted before c that has the host's name is still a member
\* of o: among the connections of that name, c is not the one the role came to.
EarlierNamesake(c, o) ==
  \E d \in Conns : d < c /\ InSeq(d, clients'[o]) /\ task[d].user = host[o]

\* C37: an incoming frame changes the host of a room only as an iam_host in a
\* room without a host or as a transfer_host from the host; and a step that
\* takes no frame changes it only as the election of a joiner into a room
\* without a host or as the disconnect sequence of the connection that holds
\* the host role: the disconnect sequence of another connection of the host's
\* name, accepted after one that is still a member, leaves the host as it is.
C37_HostChangesOnlyByRule ==
  /\ [](\A c \in Conns : \A fr \in TransferFrames \cup IamHostFrames :
          (task[c].pc = "recv" /\ ~MayChangeHost(c, fr))
          => FirstRun(c, fr).host = host)
  /\ [][\A o \in Objs :
          (host'[o] # host[o] /\ quota'.frames = quota.frames)
          => \E c \in Conns :
               /\ task'[c] # task[c] /\ task'[c].room = o
               /\ \/ Elects(c, o)
                  \/ ChangesByLeave(c, o) /\ ~EarlierNamesake(c, o)]_vars

\* C38: once every connection that joined a room id is closed and its handler
\* has ended, with or without its disconnect sequence, the registry has no
\* entry for the room id and no room object has a closed connection among its
\* members.  Nothing the server does can change the registry or the members
\* after that, so what is to hold eventually holds in that state.
C38_NothingLeftAtEnd ==
  \A r \in RoomIds :
    (/\ \E c \in Conns : task[c].room_id = r
     /\ \A c \in Conns : task[c].room_id = r => Over(c) /\ conn[c] = "closed")
    => /\ rooms[r] = NoRoom
       /\ \A o \in Objs : \A m \in Members(o) : conn[m] # "closed"

====
